---- MODULE Spec2Model ----
(***************************************************************************)
(* Weather scrape-and-persist pipeline: the SQLite record store            *)
(* (dbcm.py, db_operations.py) and the month/year scraper                  *)
(* (scrape_weather.py).                                                    *)
(***************************************************************************)
EXTENDS Integers, Sequences, FiniteSets, TLC

(***************************************************************************)
(* Bounds of the model.                                                    *)
(***************************************************************************)
\* temperatures range over 0..MaxTemp
MaxTemp == 1
\* save_data of a new date is explored while the table holds fewer rows
MaxTable == 2
\* statements executed inside one generic DBCM scope
MaxStmts == 2
\* months of a year walked by scrape_all: NumMonths down to 1 (the code walks 12)
NumMonths == 2
\* rows of one month's CSV response
MaxRows == 2

(***************************************************************************)
(* Dates.  sample_date is the text 'YYYY-MM-DD'.                           *)
(***************************************************************************)
Pad2(n) == IF n < 10 THEN "0" \o ToString(n) ELSE ToString(n)

DateStr(y, m, d) == ToString(y) \o "-" \o Pad2(m) \o "-" \o Pad2(d)

\* the dates handed to the store
StoreDates == {DateStr(y, m, d) : y \in {2023, 2024}, m \in {1, 6}, d \in {1, 15}}

Temps == 0 .. MaxTemp

\* (max, min, mean) of one day: min = t, mean = t + 1, max = t + 2
TempRecs == {<<t + 2, t, t + 1>> : t \in Temps}

(***************************************************************************)
(* Exceptions.  Every handler of db_operations.py is `except Exception`.   *)
(***************************************************************************)
NoExc == "none"

Faults == {"none", "connect", "execute", "commit"}

\* a handler written `except sqlite3.IntegrityError`
CaughtByIntegrityHandler(exc) == exc = "sqlite3.IntegrityError"

\* `except Exception` catches every sqlite3.Error
CaughtByExceptException(exc) == exc \in {"sqlite3.OperationalError", "sqlite3.IntegrityError"}

VARIABLES
    tableExists,  \* the weather_data table has been created
    table,        \* committed rows of weather_data, in insertion (id) order
    saved,        \* dates handed to save_data so far (history)
    last,         \* the last store operation and what its caller saw
    scope,        \* one generic DBCM scope (a `with DBCM(f) as cur:` block)
    args,         \* WeatherScraper's window and scrape_all's arguments
    main,         \* scrape_all: its position and its loop variables year, month
    tasks,        \* the list `tasks`: one fetch_csv_for_month call per submit
    daily_data,   \* self.daily_data: date -> [Max, Min, Mean]
    visited       \* the (year, month) cells in the order their fetch began (history)

storeVars == <<tableExists, table, saved, last>>

scrapeVars == <<args, main, tasks, daily_data, visited>>

(***************************************************************************)
(* SQL statements on the table.                                            *)
(***************************************************************************)
HasDate(tbl, date) == \E i \in 1 .. Len(tbl) : tbl[i].sample_date = date

RowsFor(tbl, date) == Cardinality({i \in 1 .. Len(tbl) : tbl[i].sample_date = date})

\* AUTOINCREMENT: one more than the largest id ever used (rows are never deleted)
NextId(tbl) == IF Len(tbl) = 0 THEN 1 ELSE tbl[Len(tbl)].id + 1

NewRow(tbl, date, max_temp, min_temp, mean_temp) ==
    [id |-> NextId(tbl), sample_date |-> date,
     min_temp |-> min_temp, max_temp |-> max_temp, avg_temp |-> mean_temp]

\* INSERT OR REPLACE: the conflicting row is deleted and the new one appended
InsertOrReplace(tbl, date, max_temp, min_temp, mean_temp) ==
    LET kept == SelectSeq(tbl, LAMBDA r : r.sample_date # date)
    IN  Append(kept, NewRow(tbl, date, max_temp, min_temp, mean_temp))

\* INSERT ... ON CONFLICT(sample_date) DO UPDATE: the stored values are overwritten
InsertOrUpdate(tbl, date, max_temp, min_temp, mean_temp) ==
    IF HasDate(tbl, date)
    THEN [i \in 1 .. Len(tbl) |->
            IF tbl[i].sample_date = date
            THEN [tbl[i] EXCEPT !.max_temp = max_temp, !.min_temp = min_temp,
                                !.avg_temp = mean_temp]
            ELSE tbl[i]]
    ELSE Append(tbl, NewRow(tbl, date, max_temp, min_temp, mean_temp))

\* plain INSERT into a table whose sample_date is not UNIQUE
InsertAlways(tbl, date, max_temp, min_temp, mean_temp) ==
    Append(tbl, NewRow(tbl, date, max_temp, min_temp, mean_temp))

\* INSERT OR IGNORE INTO weather_data (sample_date, max_temp, min_temp, avg_temp)
InsertOrIgnore(tbl, date, max_temp, min_temp, mean_temp) ==
    IF HasDate(tbl, date)
    THEN tbl
    ELSE Append(tbl, NewRow(tbl, date, max_temp, min_temp, mean_temp))

(***************************************************************************)
(* DBCM: the context manager.                                              *)
(***************************************************************************)
\* __enter__: connect and hand out a cursor, or raise
DBCM_enter(fault) == IF fault = "connect" THEN "sqlite3.OperationalError" ELSE NoExc

\* __exit__: log the body's exception, then commit and close whatever happened;
\* the body's exception propagates unless the commit itself raises
DBCM_exit(durable, pending, exc_type, fault) ==
    IF fault = "commit"
    THEN [table |-> durable, exc |-> "sqlite3.OperationalError"]
    ELSE [table |-> pending, exc |-> exc_type]

(***************************************************************************)
(* DBOperations.                                                           *)
(***************************************************************************)
\* the statement of save_data's scope: the rows the connection sees after it
SaveStatement(tbl, exists, date, max_temp, min_temp, mean_temp, fault) ==
    IF fault = "execute" \/ ~exists
    THEN [pending |-> tbl, exc |-> "sqlite3.OperationalError"]
    ELSE [pending |-> InsertOrIgnore(tbl, date, max_temp, min_temp, mean_temp),
          exc |-> NoExc]

\* the whole `with DBCM(...)` block of save_data
SaveScope(tbl, exists, date, max_temp, min_temp, mean_temp, fault) ==
    IF DBCM_enter(fault) # NoExc
    THEN [table |-> tbl, exc |-> DBCM_enter(fault)]
    ELSE LET body == SaveStatement(tbl, exists, date, max_temp, min_temp, mean_temp, fault)
         IN  DBCM_exit(tbl, body.pending, body.exc, fault)

NoCall ==
    [op |-> "construct", date |-> "", rec |-> <<>>, repeat |-> FALSE,
     result |-> 0, q |-> <<>>, rows |-> <<>>, logged |-> FALSE, raised |-> FALSE]

\* save_data(date, max_temp, min_temp, mean_temp)
save_data(FaultSet) ==
    \E date \in StoreDates, rec \in TempRecs, fault \in FaultSet :
        /\ HasDate(table, date) \/ Len(table) < MaxTable
        /\ LET out == SaveScope(table, tableExists, date, rec[1], rec[2], rec[3], fault)
           IN  /\ table' = out.table
               /\ last' = [op |-> "save_data", date |-> date, rec |-> rec,
                           repeat |-> (last.op = "save_data" /\ last.date = date
                                       /\ last.rec = rec),
                           result |-> 0, q |-> <<>>, rows |-> <<>>,
                           logged |-> (out.exc # NoExc),
                           raised |-> (out.exc # NoExc
                                       /\ ~CaughtByExceptException(out.exc))]
        /\ saved' = saved \cup {date}
        /\ UNCHANGED <<tableExists, scope>>
        /\ UNCHANGED scrapeVars

\* initialize_db(): CREATE TABLE IF NOT EXISTS
initialize_db(FaultSet) ==
    \E fault \in FaultSet :
        LET exc == IF DBCM_enter(fault) # NoExc THEN DBCM_enter(fault)
                   ELSE IF fault = "execute" THEN "sqlite3.OperationalError"
                   ELSE DBCM_exit(table, table, NoExc, fault).exc
        IN  /\ tableExists' = (tableExists \/ fault \notin {"connect", "execute"})
            /\ last' = [NoCall EXCEPT !.op = "initialize_db",
                                      !.logged = (exc # NoExc),
                                      !.raised = (exc # NoExc
                                                  /\ ~CaughtByExceptException(exc))]
            /\ UNCHANGED <<table, saved, scope>>
            /\ UNCHANGED scrapeVars

\* count_records(): SELECT COUNT(*), 0 on any error
count_records(FaultSet) ==
    \E fault \in FaultSet :
        LET exc == IF DBCM_enter(fault) # NoExc THEN DBCM_enter(fault)
                   ELSE IF fault = "execute" \/ ~tableExists
                        THEN "sqlite3.OperationalError"
                        ELSE DBCM_exit(table, table, NoExc, fault).exc
            \* the return statement runs inside the scope: a failing commit
            \* replaces the value by the handler's 0
        IN  /\ last' = [NoCall EXCEPT !.op = "count_records",
                                      !.result = IF exc = NoExc THEN Len(table) ELSE 0,
                                      !.logged = (exc # NoExc),
                                      !.raised = (exc # NoExc
                                                  /\ ~CaughtByExceptException(exc))]
            /\ UNCHANGED <<tableExists, table, saved, scope>>
            /\ UNCHANGED scrapeVars

(***************************************************************************)
(* The SELECT statements of the read operations.                           *)
(***************************************************************************)
\* the order of two characters of a date under SQLite's BINARY collation
CharRank(c) ==
    CASE c = "-" -> 0
      [] c = "0" -> 1 [] c = "1" -> 2 [] c = "2" -> 3 [] c = "3" -> 4
      [] c = "4" -> 5 [] c = "5" -> 6 [] c = "6" -> 7 [] c = "7" -> 8
      [] c = "8" -> 9 [] c = "9" -> 10

CharAt(str, i) == SubSeq(str, i, i)

\* a < b as TEXT: memcmp of the common length, then the shorter one first
StrLess(a, b) ==
    \E i \in 1 .. Len(b) :
        /\ i <= Len(a) + 1
        /\ SubSeq(a, 1, i - 1) = SubSeq(b, 1, i - 1)
        /\ i = Len(a) + 1 \/ CharRank(CharAt(a, i)) < CharRank(CharAt(b, i))

\* ORDER BY sample_date whatever the direction asked for
OrderByAscOnly(tbl, desc) ==
    [k \in 1 .. Len(tbl) |->
        CHOOSE r \in {tbl[i] : i \in 1 .. Len(tbl)} :
            Cardinality({j \in 1 .. Len(tbl) :
                            StrLess(tbl[j].sample_date, r.sample_date)}) = k - 1]

\* ORDER BY sample_date ASC | DESC; sample_date is UNIQUE, so no two rows tie
OrderBy(tbl, desc) ==
    [k \in 1 .. Len(tbl) |->
        CHOOSE r \in {tbl[i] : i \in 1 .. Len(tbl)} :
            Cardinality({j \in 1 .. Len(tbl) :
                            IF desc THEN StrLess(r.sample_date, tbl[j].sample_date)
                                    ELSE StrLess(tbl[j].sample_date, r.sample_date)}) = k - 1]

\* a LIMIT that stops one row early
LimitOffByOne(rows, n) ==
    IF n < 0 \/ n > Len(rows) THEN rows ELSE SubSeq(rows, 1, n - 1)

\* LIMIT ?: a negative limit is no limit
Limit(rows, n) ==
    IF n < 0 \/ n > Len(rows) THEN rows ELSE SubSeq(rows, 1, n)

\* the columns of the SELECT list, as the tuples fetchall() returns
SelectAll(rows) ==
    [i \in 1 .. Len(rows) |->
        <<rows[i].sample_date, rows[i].max_temp, rows[i].min_temp, rows[i].avg_temp>>]

SelectMean(rows) == [i \in 1 .. Len(rows) |-> <<rows[i].sample_date, rows[i].avg_temp>>]

SelectMaxMin(rows) ==
    [i \in 1 .. Len(rows) |-> <<rows[i].sample_date, rows[i].max_temp, rows[i].min_temp>>]

\* the body of a read operation's `with DBCM(...)` block, then its __exit__:
\* what `return cur.fetchall()` hands to the caller, or the exception
ReadScope(rows, fault) ==
    IF DBCM_enter(fault) # NoExc THEN [rows |-> <<>>, exc |-> DBCM_enter(fault)]
    ELSE IF fault = "execute" \/ ~tableExists
         THEN [rows |-> <<>>, exc |-> DBCM_exit(table, table, "sqlite3.OperationalError", fault).exc]
         ELSE [rows |-> rows, exc |-> DBCM_exit(table, table, NoExc, fault).exc]

\* try: ... return rows / except Exception: log, return []
ReadCall(op, q, rows, fault) ==
    LET out == ReadScope(rows, fault)
    IN  /\ last' = [NoCall EXCEPT !.op = op, !.q = q,
                                  !.rows = IF out.exc = NoExc THEN out.rows ELSE <<>>,
                                  !.logged = (out.exc # NoExc),
                                  !.raised = (out.exc # NoExc
                                              /\ ~CaughtByExceptException(out.exc))]
        /\ UNCHANGED <<tableExists, table, saved, scope>>
        /\ UNCHANGED scrapeVars

\* fetch_data(limit, order_desc)
fetch_data(FaultSet, LimitSet) ==
    \E fault \in FaultSet, limit \in LimitSet, order_desc \in BOOLEAN :
        ReadCall("fetch_data", <<limit, order_desc>>,
                 SelectAll(Limit(OrderBy(table, order_desc), limit)), fault)

\* substr(sample_date, 1, 4)
Substr(str, start, len) == SubSeq(str, start, start + len - 1)

\* CAST(str AS INT): the number its leading digits spell, 0 without any
RECURSIVE CastIntFrom(_, _, _)
CastIntFrom(str, i, acc) ==
    IF i > Len(str) \/ CharAt(str, i) = "-" THEN acc
    ELSE CastIntFrom(str, i + 1, acc * 10 + CharRank(CharAt(str, i)) - 1)

CastInt(str) == CastIntFrom(str, 1, 0)

\* a range that leaves out its upper bound
BetweenHalfOpen(x, lo, hi) == lo <= x /\ x < hi

\* x BETWEEN lo AND hi
Between(x, lo, hi) == lo <= x /\ x <= hi

\* fetch_mean_temps_range(year_start, year_end)
fetch_mean_temps_range(FaultSet, YearSet) ==
    \E fault \in FaultSet, year_start \in YearSet, year_end \in YearSet :
        \* WHERE ... BETWEEN ? AND ?
        LET InRange(r) == Between(CastInt(Substr(r.sample_date, 1, 4)), year_start, year_end)
        IN  ReadCall("fetch_mean_temps_range", <<year_start, year_end>>,
                     SelectMean(OrderBy(SelectSeq(table, InRange), FALSE)), fault)

\* the month written without its leading zero
LikePatternUnpadded(year, month) == ToString(year) \o "-" \o ToString(month) \o "%"

\* pattern = f"{year}-{month:02}%"
LikePattern(year, month) == ToString(year) \o "-" \o Pad2(month) \o "%"

\* str LIKE pattern, for a pattern whose only wildcard is the % that ends it
Like(str, pattern) ==
    LET n == Len(pattern) - 1
    IN  Len(str) >= n /\ SubSeq(str, 1, n) = SubSeq(pattern, 1, n)

\* SELECT sample_date, avg_temp ... WHERE sample_date LIKE ? ORDER BY sample_date ASC
MeanTempsForMonth(tbl, year, month) ==
    LET Matches(r) == Like(r.sample_date, LikePattern(year, month))
    IN  SelectMean(OrderBy(SelectSeq(tbl, Matches), FALSE))

\* SELECT sample_date, max_temp, min_temp ... WHERE sample_date LIKE ? ORDER BY sample_date ASC
MinMaxForMonth(tbl, year, month) ==
    LET Matches(r) == Like(r.sample_date, LikePattern(year, month))
    IN  SelectMaxMin(OrderBy(SelectSeq(tbl, Matches), FALSE))

\* fetch_mean_temps_for_month(year, month)
fetch_mean_temps_for_month(FaultSet, YearSet, MonthSet) ==
    \E fault \in FaultSet, year \in YearSet, month \in MonthSet :
        ReadCall("fetch_mean_temps_for_month", <<year, month>>,
                 MeanTempsForMonth(table, year, month), fault)

\* fetch_min_max_for_month(year, month)
fetch_min_max_for_month(FaultSet, YearSet, MonthSet) ==
    \E fault \in FaultSet, year \in YearSet, month \in MonthSet :
        ReadCall("fetch_min_max_for_month", <<year, month>>,
                 MinMaxForMonth(table, year, month), fault)

(***************************************************************************)
(* A generic DBCM scope: `with DBCM(db_file) as cur:` around a body that   *)
(* executes INSERT statements on cur and may raise.                        *)
(***************************************************************************)
ClosedScope == [open |-> FALSE, pending |-> <<>>, base |-> <<>>, stmts |-> 0, exc |-> NoExc]

ScopeEnter ==
    /\ ~scope.open
    /\ scope' = [open |-> TRUE, pending |-> table, base |-> table, stmts |-> 0, exc |-> NoExc]
    /\ UNCHANGED storeVars
    /\ UNCHANGED scrapeVars

\* cur.execute(INSERT OR IGNORE ...) inside the body
ScopeExecute ==
    /\ scope.open /\ scope.exc = NoExc /\ scope.stmts < MaxStmts
    /\ \E date \in StoreDates, rec \in TempRecs :
           /\ HasDate(scope.pending, date) \/ Len(scope.pending) < MaxTable
           /\ scope' = [scope EXCEPT
                          !.pending = InsertOrIgnore(@, date, rec[1], rec[2], rec[3]),
                          !.stmts = @ + 1]
    /\ UNCHANGED storeVars
    /\ UNCHANGED scrapeVars

\* the body raises
ScopeRaise ==
    /\ scope.open /\ scope.exc = NoExc
    /\ scope' = [scope EXCEPT !.exc = "Exception"]
    /\ UNCHANGED storeVars
    /\ UNCHANGED scrapeVars

\* the block is left: __exit__(exc_type, exc_val, exc_tb)
ScopeExit ==
    /\ scope.open
    /\ table' = DBCM_exit(table, scope.pending, scope.exc, "none").table
    /\ scope' = [scope EXCEPT !.open = FALSE]
    /\ UNCHANGED <<tableExists, saved, last>>
    /\ UNCHANGED scrapeVars

(***************************************************************************)
(* WeatherScraper: the CSV rows of one month and how a row is read.        *)
(***************************************************************************)
\* inputs: the years of a window, max_workers (the code's default is 6), the
\* days a row's Date/Time names, the numbers a cell holds
Years == {2020, 2021}

WorkerCounts == {1, 2}

Days == {1, 2}

CellNums == {0, 1}

\* the columns fetch_csv_for_month reads: 'Date/Time', 'Max Temp (°C)',
\* 'Min Temp (°C)', 'Mean Temp (°C)'
Cols == {"Date/Time", "Max", "Min", "Mean"}

TempCols == {"Max", "Min", "Mean"}

\* Python's None
None == "<None>"

NumStrs == {ToString(n) : n \in CellNums}

\* a cell of the response: empty, text that is no number, or a number
CellStrs == {"", "x"} \cup NumStrs

\* float(s) of a cell: the number, or ValueError
ParseFloat(s) ==
    IF s \in NumStrs
    THEN [ok |-> TRUE, val |-> CHOOSE n \in CellNums : ToString(n) = s]
    ELSE [ok |-> FALSE, val |-> 0]

\* row.get(col): DictReader gives a row the columns of the header line
RowGet(row, hdr, col) == IF col \in hdr THEN row[col] ELSE None

\* float(row.get(col, 0)): a column the response lacks reads as 0
FloatOrDefault0(row, hdr, col) ==
    IF col \notin hdr THEN [ok |-> TRUE, val |-> 0] ELSE ParseFloat(row[col])

\* `if not date or row.get('Max Temp (°C)') == '': continue`
Skipped(row, hdr) ==
    \/ RowGet(row, hdr, "Date/Time") \in {None, ""}
    \/ RowGet(row, hdr, "Max") = ""

\* one of the three float() calls raises
Raises(row, hdr) == \E col \in TempCols : ~FloatOrDefault0(row, hdr, col).ok

\* the row is recorded: it is neither skipped nor the cause of an exception
Accepted(row, hdr) == ~Skipped(row, hdr) /\ ~Raises(row, hdr)

\* {'Max': float(...), 'Min': float(...), 'Mean': float(...)}
RowValues(row, hdr) == [col \in TempCols |-> FloatOrDefault0(row, hdr, col).val]

\* the key is year-month-k, k the ordinal of the row among the recorded ones
SequentialKey(row, year, month, k) == DateStr(year, month, k)

\* self.daily_data[date], date = row.get('Date/Time')
RowKey(row, year, month, k) == row["Date/Time"]

CellDates(year, month) == {DateStr(year, month, d) : d \in Days}

MakeRow(date, max, min, mean) ==
    [col \in Cols |-> CASE col = "Date/Time" -> date
                        [] col = "Max" -> max
                        [] col = "Min" -> min
                        [] OTHER -> mean]

\* what the remote may answer for a month.  "rich": any header and up to
\* MaxRows rows of any cells; "plain": the full header and at most one row,
\* a good one for day 1; "yearly": the full header and at most one row, a
\* good one for the first day of the year, whose Max differs from month to
\* month
Hdrs(source) == IF source = "rich" THEN SUBSET Cols ELSE {Cols}

RowLimit(source) == IF source = "rich" THEN MaxRows ELSE 1

Rows(source, year, month, hdr) ==
    IF source = "rich"
    THEN {MakeRow(date, max, min, mean) :
            date \in IF "Date/Time" \in hdr THEN {""} \cup CellDates(year, month) ELSE {""},
            max \in IF "Max" \in hdr THEN CellStrs ELSE {""},
            min \in IF "Min" \in hdr THEN CellStrs ELSE {""},
            mean \in IF "Mean" \in hdr THEN CellStrs ELSE {""}}
    ELSE IF source = "yearly"
    THEN {MakeRow(DateStr(year, 1, 1), ToString(month % 2), "0", "1")}
    ELSE {MakeRow(DateStr(year, month, 1), "1", "0", "1")}

(***************************************************************************)
(* _scrape_html_for_month: the HTML attempt.                               *)
(***************************************************************************)
\* response.text as the events HTMLParser.feed raises: start tags, end tags
\* and the text between them
Token(kind, text) == [kind |-> kind, text |-> text]

CellTokens(cell) == <<Token("starttag", "td"), Token("data", cell), Token("endtag", "td")>>

RECURSIVE CellsTokens(_)
CellsTokens(cells) ==
    IF cells = <<>> THEN <<>> ELSE CellTokens(Head(cells)) \o CellsTokens(Tail(cells))

RowTokens(cells) ==
    <<Token("starttag", "tr")>> \o CellsTokens(cells) \o <<Token("endtag", "tr")>>

RECURSIVE RowsTokens(_)
RowsTokens(rows) ==
    IF rows = <<>> THEN <<>> ELSE RowTokens(Head(rows)) \o RowsTokens(Tail(rows))

TableTokens(rows) ==
    <<Token("starttag", "table")>> \o RowsTokens(rows) \o <<Token("endtag", "table")>>

\* the rows of a page's table: a day's max, min and mean, or a line of text
HtmlRows == {<<"10.0", "2.0", "6.0">>, <<"abc", "-", "-">>}

\* the pages the site may answer.  "rich": a table of up to two rows, also
\* one followed by a row-closing tag without a row; "plain": the two-row table
HtmlDocs(source) ==
    IF source = "rich"
    THEN {TableTokens(rows) : rows \in UNION {[1 .. n -> HtmlRows] : n \in 0 .. 2}}
         \cup {TableTokens(<<r>>) \o <<Token("endtag", "tr")>> : r \in HtmlRows}
    ELSE {TableTokens(<<<<"10.0", "2.0", "6.0">>, <<"abc", "-", "-">>>>)}

\* DummyParser: handle_data is `pass`, handle_starttag and handle_endtag are
\* HTMLParser's own, which do nothing; self.data stays as __init__ made it
DummyParser_handle(token, data) ==
    CASE token.kind = "data" -> data
      [] token.kind = "starttag" -> data
      [] token.kind = "endtag" -> data

\* parser.feed(html_content)
RECURSIVE DummyParser_feed(_, _)
DummyParser_feed(tokens, data) ==
    IF tokens = <<>> THEN data
    ELSE DummyParser_feed(Tail(tokens), DummyParser_handle(Head(tokens), data))

\* None on an error or a status other than 200, else parser.data after the
\* feed of a DummyParser whose data was {}
HtmlData(outcome, doc) ==
    IF outcome = "ok" THEN [none |-> FALSE, data |-> DummyParser_feed(doc, <<>>)]
    ELSE [none |-> TRUE, data |-> <<>>]

\* `if html_data:`
Truthy(h) == ~h.none /\ DOMAIN h.data # {}

(***************************************************************************)
(* scrape_all and its tasks.                                               *)
(***************************************************************************)
NoRow == <<>>

\* no page has been parsed
NoHtml == [fed |-> FALSE, doc |-> <<>>, data |-> <<>>]

NewTask(year, month, pc) ==
    [year |-> year, month |-> month, pc |-> pc, html |-> NoHtml, hdr |-> {},
     read |-> 0, k |-> 0, cur |-> NoRow, valid |-> {}]

\* the call returns: its locals are gone
Finished(task) ==
    [task EXCEPT !.pc = "done", !.html = NoHtml, !.hdr = {}, !.read = 0, !.k = 0,
                 !.cur = NoRow]

AllDone == \A t \in 1 .. Len(tasks) : tasks[t].pc = "done"

\* calls of fetch_csv_for_month that have begun and not returned
Running == {t \in 1 .. Len(tasks) : tasks[t].pc \in {"html", "csv", "row", "write"}}

\* range(self.end_year, self.start_year - 1, -1) is exhausted
LoopDone == main.year < args.start_year

\* the loop variables never return to month NumMonths
NextCellNoReset(year, month) ==
    IF month > 1 THEN <<year, month - 1>> ELSE <<year - 1, 1>>

\* for year in range(end_year, start_year - 1, -1): for month in range(12, 0, -1)
NextCell(year, month) ==
    IF month > 1 THEN <<year, month - 1>> ELSE <<year - 1, NumMonths>>

\* scrape_all(use_threads, max_workers) is called
ScrapeAll ==
    /\ main.pc = "idle"
    /\ main' = [pc |-> "submit", year |-> args.end_year, month |-> NumMonths]
    /\ UNCHANGED <<args, tasks, daily_data, visited>>
    /\ UNCHANGED <<storeVars, scope>>

\* executor.submit(self.fetch_csv_for_month, year, month): the thread pool
\* queues the call, DummyExecutor runs it before it returns
Submit ==
    /\ main.pc = "submit" /\ ~LoopDone
    /\ args.use_threads \/ AllDone
    /\ tasks' = Append(tasks, NewTask(main.year, main.month,
                                      IF args.use_threads THEN "queued" ELSE "html"))
    /\ main' = [main EXCEPT !.year = NextCell(main.year, main.month)[1],
                            !.month = NextCell(main.year, main.month)[2]]
    /\ UNCHANGED <<args, daily_data, visited>>
    /\ UNCHANGED <<storeVars, scope>>

\* the loops end
ExitLoop ==
    /\ main.pc = "submit" /\ LoopDone
    /\ args.use_threads \/ AllDone
    /\ main' = [main EXCEPT !.pc = "wait"]
    /\ UNCHANGED <<args, tasks, daily_data, visited>>
    /\ UNCHANGED <<storeVars, scope>>

\* scrape_all returns without waiting for the submitted calls
ReturnEarly ==
    /\ main.pc = "wait"
    /\ main' = [main EXCEPT !.pc = "returned"]
    /\ UNCHANGED <<args, tasks, daily_data, visited>>
    /\ UNCHANGED <<storeVars, scope>>

\* as_completed(tasks) and the executor's shutdown(wait=True) are over:
\* scrape_all returns self.daily_data
Return ==
    /\ main.pc = "wait" /\ AllDone
    /\ main' = [main EXCEPT !.pc = "returned"]
    /\ UNCHANGED <<args, tasks, daily_data, visited>>
    /\ UNCHANGED <<storeVars, scope>>

\* fetch_csv_for_month(year, month) is called on its own
CallFetch ==
    /\ main.pc = "idle" /\ tasks = <<>>
    /\ \E year \in Years, month \in 1 .. NumMonths :
           tasks' = <<NewTask(year, month, "html")>>
    /\ UNCHANGED <<args, main, daily_data, visited>>
    /\ UNCHANGED <<storeVars, scope>>

\* a pool that starts a queued call whatever the number of running ones
StartUnbounded(t) ==
    /\ tasks[t].pc = "queued"
    /\ \A u \in 1 .. (t - 1) : tasks[u].pc # "queued"
    /\ tasks' = [tasks EXCEPT ![t].pc = "html"]
    /\ UNCHANGED <<args, main, daily_data, visited>>
    /\ UNCHANGED <<storeVars, scope>>

\* a worker thread takes the oldest queued call
Start(t) ==
    /\ tasks[t].pc = "queued"
    /\ \A u \in 1 .. (t - 1) : tasks[u].pc # "queued"
    /\ Cardinality(Running) < args.max_workers
    /\ tasks' = [tasks EXCEPT ![t].pc = "html"]
    /\ UNCHANGED <<args, main, daily_data, visited>>
    /\ UNCHANGED <<storeVars, scope>>

\* fetch_csv_for_month, step 1: the HTML request of the cell; html keeps
\* the page that was parsed and what the parser held after it
HtmlAttempt(t, source) ==
    /\ tasks[t].pc = "html"
    /\ visited' = Append(visited, <<tasks[t].year, tasks[t].month>>)
    /\ \E outcome \in {"error", "status", "ok"}, doc \in HtmlDocs(source) :
           LET html_data == HtmlData(outcome, doc)
               html == IF outcome = "ok"
                       THEN [fed |-> TRUE, doc |-> doc, data |-> html_data.data]
                       ELSE NoHtml
           IN  IF Truthy(html_data)
               THEN /\ daily_data' = html_data.data @@ daily_data
                    /\ tasks' = [tasks EXCEPT ![t] = Finished(@)]
               ELSE /\ daily_data' = daily_data
                    /\ tasks' = [tasks EXCEPT ![t].pc = "csv", ![t].html = html]
    /\ UNCHANGED <<args, main>>
    /\ UNCHANGED <<storeVars, scope>>

\* a failed request ends scrape_all instead of the call alone
CsvGetFatal(t, source) ==
    /\ tasks[t].pc = "csv"
    /\ \E outcome \in {"error", "status", "ok"} :
           IF outcome = "ok"
           THEN /\ \E hdr \in Hdrs(source) :
                       tasks' = [tasks EXCEPT ![t].pc = "row", ![t].html = NoHtml,
                                              ![t].hdr = hdr]
                /\ main' = main
           ELSE /\ tasks' = [u \in 1 .. Len(tasks) |-> Finished(tasks[u])]
                /\ main' = [main EXCEPT !.pc = "returned"]
    /\ UNCHANGED <<args, daily_data, visited>>
    /\ UNCHANGED <<storeVars, scope>>

\* step 2: requests.get of the CSV; an exception or a status other than 200
\* ends the call, else DictReader reads the header line
CsvGet(t, source) ==
    /\ tasks[t].pc = "csv"
    /\ \E outcome \in {"error", "status", "ok"} :
           IF outcome = "ok"
           THEN \E hdr \in Hdrs(source) :
                    tasks' = [tasks EXCEPT ![t].pc = "row", ![t].html = NoHtml,
                                              ![t].hdr = hdr]
           ELSE tasks' = [tasks EXCEPT ![t] = Finished(@)]
    /\ UNCHANGED <<args, main, daily_data, visited>>
    /\ UNCHANGED <<storeVars, scope>>

\* `for row in reader` finds no further row
EndOfRows(t) ==
    /\ tasks[t].pc = "row"
    /\ tasks' = [tasks EXCEPT ![t] = Finished(@)]
    /\ UNCHANGED <<args, main, daily_data, visited>>
    /\ UNCHANGED <<storeVars, scope>>

\* the next row is skipped by `continue`
SkipRow(t, source) ==
    /\ tasks[t].pc = "row" /\ tasks[t].read < RowLimit(source)
    /\ \E row \in Rows(source, tasks[t].year, tasks[t].month, tasks[t].hdr) :
           /\ Skipped(row, tasks[t].hdr)
           /\ tasks' = [tasks EXCEPT ![t].read = @ + 1]
    /\ UNCHANGED <<args, main, daily_data, visited>>
    /\ UNCHANGED <<storeVars, scope>>

\* a float() of the next row raises: `except Exception` logs it and the call
\* returns; rest is the dates of the good rows the reader had not yet given
BadRow(t, source) ==
    /\ tasks[t].pc = "row" /\ tasks[t].read < RowLimit(source)
    /\ \E row \in Rows(source, tasks[t].year, tasks[t].month, tasks[t].hdr) :
           /\ ~Skipped(row, tasks[t].hdr) /\ Raises(row, tasks[t].hdr)
           /\ \E rest \in SUBSET CellDates(tasks[t].year, tasks[t].month) :
                  /\ Cardinality(rest) <= RowLimit(source) - tasks[t].read - 1
                  /\ tasks' = [tasks EXCEPT ![t] = Finished([@ EXCEPT !.valid = @ \cup rest])]
    /\ UNCHANGED <<args, main, daily_data, visited>>
    /\ UNCHANGED <<storeVars, scope>>

\* the three float() calls of the next row succeed: the dict is built
GoodRow(t, source) ==
    /\ tasks[t].pc = "row" /\ tasks[t].read < RowLimit(source)
    /\ \E row \in Rows(source, tasks[t].year, tasks[t].month, tasks[t].hdr) :
           /\ Accepted(row, tasks[t].hdr)
           /\ tasks' = [tasks EXCEPT ![t].pc = "write", ![t].read = @ + 1,
                                     ![t].k = @ + 1, ![t].cur = row,
                                     ![t].valid = @ \cup {row["Date/Time"]}]
    /\ UNCHANGED <<args, main, daily_data, visited>>
    /\ UNCHANGED <<storeVars, scope>>

\* self.daily_data[date] = {...}
Write(t) ==
    /\ tasks[t].pc = "write"
    /\ LET row == tasks[t].cur
           key == RowKey(row, tasks[t].year, tasks[t].month, tasks[t].k)
       IN  daily_data' = (key :> RowValues(row, tasks[t].hdr)) @@ daily_data
    /\ tasks' = [tasks EXCEPT ![t].pc = "row", ![t].cur = NoRow]
    /\ UNCHANGED <<args, main, visited>>
    /\ UNCHANGED <<storeVars, scope>>

(***************************************************************************)
(* Specifications.                                                         *)
(***************************************************************************)
InitStore ==
    /\ tableExists = TRUE
    /\ table = <<>>
    /\ saved = {}
    /\ last = NoCall
    /\ scope = ClosedScope

\* WeatherScraper(start_year=..., end_year=...) is constructed
InitScraper(StartYears, EndYears, UseThreads, Workers) ==
    /\ args \in [start_year : StartYears, end_year : EndYears,
                 use_threads : UseThreads, max_workers : Workers]
    /\ main = [pc |-> "idle", year |-> 0, month |-> 0]
    /\ tasks = <<>>
    /\ daily_data = <<>>
    /\ visited = <<>>

Init == InitStore /\ InitScraper({2020}, {2020}, {TRUE}, {1})

\* the store, storage available
Next ==
    \/ initialize_db({"none"})
    \/ save_data({"none"})
    \/ count_records({"none"})

vars == <<tableExists, table, saved, last, scope, args, main, tasks, daily_data, visited>>

Spec == Init /\ [][Next]_vars

\* the store after a run of save_data calls, the i-th with the values
\* (t + 2, t, t + 1) for t = i modulo the number of temperatures
RECURSIVE SaveAll(_)
SaveAll(dates) ==
    IF dates = <<>> THEN <<>>
    ELSE LET n == Len(dates)
             t == n % (MaxTemp + 1)
         IN  InsertOrIgnore(SaveAll(SubSeq(dates, 1, n - 1)), dates[n], t + 2, t, t + 1)

MaxSaves == MaxTable + 1

DateSeqs == UNION {[1 .. n -> StoreDates] : n \in 0 .. MaxSaves}

\* the arguments of the read operations
Limits == 0 .. MaxSaves + 1

QueryYears == {2022, 2023, 2024}

QueryMonths == 1 .. 12

InitQuery ==
    /\ tableExists = TRUE
    /\ table \in {SaveAll(dates) : dates \in DateSeqs}
    /\ saved = {table[i].sample_date : i \in 1 .. Len(table)}
    /\ last = NoCall
    /\ scope = ClosedScope
    /\ InitScraper({2020}, {2020}, {TRUE}, {1})

\* no operation has been called on the DBOperations object yet
FirstCall == last.op = "construct"

\* one read operation on a store that holds any saved rows
NextQuery ==
    \/ FirstCall /\ count_records({"none"})
    \/ FirstCall /\ fetch_data({"none"}, Limits)
    \/ FirstCall /\ fetch_mean_temps_range({"none"}, QueryYears)
    \/ FirstCall /\ fetch_mean_temps_for_month({"none"}, QueryYears, QueryMonths)
    \/ FirstCall /\ fetch_min_max_for_month({"none"}, QueryYears, QueryMonths)

SpecQuery == InitQuery /\ [][NextQuery]_vars

\* a store that holds any saved rows, or none because the constructor's
\* CREATE TABLE failed, when the file cannot always be opened, queried or
\* committed
InitFail ==
    /\ table \in {SaveAll(dates) : dates \in DateSeqs}
    /\ tableExists \in {TRUE, table # <<>>}
    /\ saved = {table[i].sample_date : i \in 1 .. Len(table)}
    /\ last = NoCall
    /\ scope = ClosedScope
    /\ InitScraper({2020}, {2020}, {TRUE}, {1})

\* one operation on that store
NextFail ==
    \/ FirstCall /\ initialize_db(Faults)
    \/ FirstCall /\ save_data(Faults)
    \/ FirstCall /\ count_records(Faults)
    \/ FirstCall /\ fetch_data(Faults, {1, 5})
    \/ FirstCall /\ fetch_mean_temps_range(Faults, {2023})
    \/ FirstCall /\ fetch_mean_temps_for_month(Faults, {2023}, {1})
    \/ FirstCall /\ fetch_min_max_for_month(Faults, {2023}, {1})

SpecFail == InitFail /\ [][NextFail]_vars

\* a client of DBCM whose body may raise
NextScope == ScopeEnter \/ ScopeExecute \/ ScopeRaise \/ ScopeExit

SpecScope == Init /\ [][NextScope]_vars

\* scrape_all over any window, with the thread pool or with DummyExecutor
InitScrape == InitStore /\ InitScraper(Years, Years, BOOLEAN, WorkerCounts)

NextScrape ==
    \/ ScrapeAll \/ Submit \/ ExitLoop \/ Return
    \/ \E t \in 1 .. Len(tasks) : Start(t)
    \/ \E t \in 1 .. Len(tasks) : HtmlAttempt(t, "plain")
    \/ \E t \in 1 .. Len(tasks) : CsvGet(t, "plain")
    \/ \E t \in 1 .. Len(tasks) : EndOfRows(t)
    \/ \E t \in 1 .. Len(tasks) : GoodRow(t, "plain")
    \/ \E t \in 1 .. Len(tasks) : Write(t)

SpecScrape == InitScrape /\ [][NextScrape]_vars

\* scrape_all of one year with DummyExecutor, any response
InitFetch == InitStore /\ InitScraper({2020}, {2020}, {FALSE}, {1})

NextFetch ==
    \/ ScrapeAll \/ Submit \/ ExitLoop \/ Return
    \/ \E t \in 1 .. Len(tasks) : HtmlAttempt(t, "plain")
    \/ \E t \in 1 .. Len(tasks) : CsvGet(t, "rich")
    \/ \E t \in 1 .. Len(tasks) : EndOfRows(t)
    \/ \E t \in 1 .. Len(tasks) : SkipRow(t, "rich")
    \/ \E t \in 1 .. Len(tasks) : BadRow(t, "rich")
    \/ \E t \in 1 .. Len(tasks) : GoodRow(t, "rich")
    \/ \E t \in 1 .. Len(tasks) : Write(t)

SpecFetch == InitFetch /\ [][NextFetch]_vars

\* one call of fetch_csv_for_month on a fresh scraper, any response
NextMonth ==
    \/ CallFetch
    \/ \E t \in 1 .. Len(tasks) : HtmlAttempt(t, "plain")
    \/ \E t \in 1 .. Len(tasks) : CsvGet(t, "rich")
    \/ \E t \in 1 .. Len(tasks) : EndOfRows(t)
    \/ \E t \in 1 .. Len(tasks) : SkipRow(t, "rich")
    \/ \E t \in 1 .. Len(tasks) : BadRow(t, "rich")
    \/ \E t \in 1 .. Len(tasks) : GoodRow(t, "rich")
    \/ \E t \in 1 .. Len(tasks) : Write(t)

SpecMonth == InitFetch /\ [][NextMonth]_vars

\* scrape_all over any window, with the thread pool or with DummyExecutor,
\* when the responses of a year's months hold the same date
NextRace ==
    \/ ScrapeAll \/ Submit \/ ExitLoop \/ Return
    \/ \E t \in 1 .. Len(tasks) : Start(t)
    \/ \E t \in 1 .. Len(tasks) : HtmlAttempt(t, "plain")
    \/ \E t \in 1 .. Len(tasks) : CsvGet(t, "yearly")
    \/ \E t \in 1 .. Len(tasks) : EndOfRows(t)
    \/ \E t \in 1 .. Len(tasks) : GoodRow(t, "yearly")
    \/ \E t \in 1 .. Len(tasks) : Write(t)

SpecRace == InitScrape /\ [][NextRace]_vars

\* one call of fetch_csv_for_month on a fresh scraper, any page and any
\* response
NextHtml ==
    \/ CallFetch
    \/ \E t \in 1 .. Len(tasks) : HtmlAttempt(t, "rich")
    \/ \E t \in 1 .. Len(tasks) : CsvGet(t, "rich")
    \/ \E t \in 1 .. Len(tasks) : EndOfRows(t)
    \/ \E t \in 1 .. Len(tasks) : SkipRow(t, "rich")
    \/ \E t \in 1 .. Len(tasks) : BadRow(t, "rich")
    \/ \E t \in 1 .. Len(tasks) : GoodRow(t, "rich")
    \/ \E t \in 1 .. Len(tasks) : Write(t)

SpecHtml == InitFetch /\ [][NextHtml]_vars

(***************************************************************************)
(* Properties of the store.                                                *)
(***************************************************************************)
\* C1: a save_data call that repeats the record of the save_data call right
\* before it leaves the table as the first call left it, with exactly one row
\* for that date, and neither call raises to its caller.
C1_SaveIdempotent ==
    [][(last'.op = "save_data" /\ last'.repeat)
         => /\ table' = table
            /\ RowsFor(table', last'.date) = 1
            /\ ~last.raised /\ ~last'.raised]_vars

\* two save_data calls in a row with the identical record have run
C1_Witness ==
    /\ last.op = "save_data" /\ last.repeat
    /\ RowsFor(table, last.date) = 1

\* C2: a save_data for a date that already has a row leaves that row's max, min
\* and mean, and every other row, unchanged (first write wins).
C2_FirstWriteWins ==
    [][(last'.op = "save_data" /\ HasDate(table, last'.date)) => table' = table]_vars

\* a save_data whose values differ from the stored ones has run
C2_Witness ==
    /\ last.op = "save_data"
    /\ \E i \in 1 .. Len(table) :
           /\ table[i].sample_date = last.date
           /\ <<table[i].max_temp, table[i].min_temp, table[i].avg_temp>> # last.rec

\* C3: at most one row per sample_date; a step never removes or modifies a row;
\* count_records() returns the number of distinct dates saved so far.
C3_UniqueMonotonic ==
    /\ [](\A date \in StoreDates : RowsFor(table, date) <= 1)
    /\ [](last.op = "count_records" => last.result = Cardinality(saved))
    /\ [][/\ Len(table') >= Len(table)
          /\ \A i \in 1 .. Len(table) : table'[i] = table[i]]_vars

\* count_records() has run on a table of two rows after a date was saved twice
C3_Witness ==
    /\ last.op = "count_records" /\ last.result = 2
    /\ Cardinality(saved) = 2

\* C7: a DBCM scope commits all of its statements or none of them, and none
\* when its body raised.
C7_ScopeAtomic ==
    ~scope.open =>
        /\ table = scope.pending \/ table = scope.base
        /\ scope.exc # NoExc => table = scope.base

\* year, month and day of a date 'YYYY-MM-DD'
DateKey(date) ==
    <<CastInt(SubSeq(date, 1, 4)), CastInt(SubSeq(date, 6, 7)), CastInt(SubSeq(date, 9, 10))>>

\* a is an earlier day than b
Earlier(a, b) ==
    LET x == DateKey(a)
        y == DateKey(b)
    IN  \/ x[1] < y[1]
        \/ x[1] = y[1] /\ x[2] < y[2]
        \/ x[1] = y[1] /\ x[2] = y[2] /\ x[3] < y[3]

\* the rows a read operation returned are in ascending date order
Ascending(rows) ==
    \A i, j \in 1 .. Len(rows) : i < j => Earlier(rows[i][1], rows[j][1])

Descending(rows) ==
    \A i, j \in 1 .. Len(rows) : i < j => Earlier(rows[j][1], rows[i][1])

\* the dates of returned rows
DatesOf(rows) == {rows[i][1] : i \in 1 .. Len(rows)}

Min2(a, b) == IF a < b THEN a ELSE b

\* C13: fetch_data(limit, order_desc) with limit >= 0 returns min(limit, number
\* of stored rows) rows, each the (sample_date, max_temp, min_temp, avg_temp)
\* of a stored row, in descending date order if order_desc and ascending
\* otherwise; no stored row left out comes before a returned one in that
\* order; on an empty store it returns the empty list and logs no error.
C13_FetchData ==
    last.op = "fetch_data" =>
        LET limit == last.q[1]
            order_desc == last.q[2]
            rows == last.rows
        IN  /\ ~last.raised
            /\ Len(rows) = Min2(limit, Len(table))
            /\ IF order_desc THEN Descending(rows) ELSE Ascending(rows)
            /\ \A i \in 1 .. Len(rows) : \E k \in 1 .. Len(table) :
                   rows[i] = <<table[k].sample_date, table[k].max_temp,
                               table[k].min_temp, table[k].avg_temp>>
            /\ \A k \in 1 .. Len(table) :
                   table[k].sample_date \notin DatesOf(rows) =>
                       \A d \in DatesOf(rows) :
                           IF order_desc THEN Earlier(table[k].sample_date, d)
                                         ELSE Earlier(d, table[k].sample_date)
            /\ table = <<>> => rows = <<>> /\ ~last.logged

\* fetch_data(2, True) has returned the two latest of three stored rows, which
\* were not saved in date order
C13_Witness ==
    /\ last.op = "fetch_data" /\ last.q = <<2, TRUE>>
    /\ Len(table) = 3 /\ Len(last.rows) = 2
    /\ Earlier(table[3].sample_date, table[1].sample_date)
    /\ last.rows[1][1] # table[3].sample_date

\* the first four characters of the date spell a year of lo..hi
YearIn(date, lo, hi) == \E y \in lo .. hi : SubSeq(date, 1, 4) = ToString(y)

\* C14: fetch_mean_temps_range(year_start, year_end) returns the
\* (sample_date, avg_temp) of every stored row whose first four characters
\* spell a year of year_start..year_end, of no other row, each once, in
\* ascending date order; from a store holding 2023-01-15, 2023-06-01 and
\* 2024-01-01 the range (2023, 2023) returns the first two in that order.
C14_YearRange ==
    last.op = "fetch_mean_temps_range" =>
        LET rows == last.rows
            hits == {k \in 1 .. Len(table) : YearIn(table[k].sample_date, last.q[1], last.q[2])}
        IN  /\ ~last.raised
            /\ {rows[i] : i \in 1 .. Len(rows)}
                   = {<<table[k].sample_date, table[k].avg_temp>> : k \in hits}
            /\ Len(rows) = Cardinality(hits)
            /\ Ascending(rows)
            /\ (saved = {"2023-01-15", "2023-06-01", "2024-01-01"} /\ last.q = <<2023, 2023>>)
                   => /\ Len(rows) = 2
                      /\ rows[1][1] = "2023-01-15" /\ rows[2][1] = "2023-06-01"

\* the three dates were saved latest first and the range (2023, 2023) was asked
C14_Witness ==
    /\ last.op = "fetch_mean_temps_range" /\ last.q = <<2023, 2023>>
    /\ Len(table) = 3
    /\ table[1].sample_date = "2024-01-01"
    /\ table[2].sample_date = "2023-06-01"
    /\ table[3].sample_date = "2023-01-15"
    /\ Len(last.rows) = 2

\* the stored rows of the given year and month
RowsOfMonth(year, month) ==
    {k \in 1 .. Len(table) :
        \E day \in 1 .. 31 : table[k].sample_date = DateStr(year, month, day)}

\* C15: for a year and a month of 1..12, fetch_mean_temps_for_month returns
\* the (sample_date, avg_temp) and fetch_min_max_for_month the (sample_date,
\* max_temp, min_temp) of every stored row of that year and month, of no other
\* row, each once, in ascending date order; the two return the same dates.
C15_MonthQueries ==
    /\ last.op = "fetch_mean_temps_for_month" =>
        LET rows == last.rows
            hits == RowsOfMonth(last.q[1], last.q[2])
        IN  /\ ~last.raised
            /\ {rows[i] : i \in 1 .. Len(rows)}
                   = {<<table[k].sample_date, table[k].avg_temp>> : k \in hits}
            /\ Len(rows) = Cardinality(hits)
            /\ Ascending(rows)
            /\ DatesOf(rows) = DatesOf(MinMaxForMonth(table, last.q[1], last.q[2]))
    /\ last.op = "fetch_min_max_for_month" =>
        LET rows == last.rows
            hits == RowsOfMonth(last.q[1], last.q[2])
        IN  /\ ~last.raised
            /\ {rows[i] : i \in 1 .. Len(rows)}
                   = {<<table[k].sample_date, table[k].max_temp, table[k].min_temp>> : k \in hits}
            /\ Len(rows) = Cardinality(hits)
            /\ Ascending(rows)
            /\ DatesOf(rows) = DatesOf(MeanTempsForMonth(table, last.q[1], last.q[2]))

\* fetch_min_max_for_month(2023, 1) has returned both days of January 2023,
\* saved latest first, from a store that also holds 2024-01-01
C15_Witness ==
    /\ last.op = "fetch_min_max_for_month" /\ last.q = <<2023, 1>>
    /\ Len(table) = 3
    /\ table[1].sample_date = "2023-01-15"
    /\ table[2].sample_date = "2024-01-01"
    /\ table[3].sample_date = "2023-01-01"
    /\ Len(last.rows) = 2 /\ last.rows[1][1] = "2023-01-01"

ReadOps ==
    {"fetch_data", "fetch_mean_temps_range", "fetch_mean_temps_for_month",
     "fetch_min_max_for_month"}

\* C16: an operation during which the connection, the statement or the commit
\* raised lets no exception out and leaves the stored rows as they were; if it
\* is a read operation it returns the empty list, count_records returns 0.
C16_FailureContained ==
    [][(last' # last /\ last'.logged)
         => /\ ~last'.raised
            /\ table' = table
            /\ last'.op \in ReadOps => last'.rows = <<>>
            /\ last'.op = "count_records" => last'.result = 0]_vars

\* fetch_data has failed on a store of three rows and returned the empty list
C16_Witness ==
    /\ last.op = "fetch_data" /\ last.logged
    /\ Len(table) = 3 /\ tableExists
    /\ last.rows = <<>>

(***************************************************************************)
(* Properties of the scraper.                                              *)
(***************************************************************************)
\* the cells of the window start_year..end_year, most recent first
WindowCells ==
    LET n == IF args.end_year >= args.start_year
             THEN (args.end_year - args.start_year + 1) * NumMonths ELSE 0
    IN  [i \in 1 .. n |-> <<args.end_year - ((i - 1) \div NumMonths),
                            NumMonths - ((i - 1) % NumMonths)>>]

IsPrefix(p, q) == Len(p) <= Len(q) /\ \A i \in 1 .. Len(p) : p[i] = q[i]

\* the cells in the order they were submitted
Submitted == [t \in 1 .. Len(tasks) |-> <<tasks[t].year, tasks[t].month>>]

\* C4 as stated: the fetches begin in the order end_year..start_year, months
\* NumMonths..1, and when scrape_all returns every cell has been fetched once.
C4_TraversalOrder ==
    /\ IsPrefix(visited, WindowCells)
    /\ main.pc = "returned" => visited = WindowCells

\* C4 amended: the cells are submitted in that order; no cell is fetched twice
\* and none outside the window; when scrape_all returns every cell has been
\* fetched; with DummyExecutor or one worker the fetches begin in that order.
C4_SubmissionOrder ==
    /\ IsPrefix(Submitted, WindowCells)
    /\ \A i, j \in 1 .. Len(visited) : visited[i] = visited[j] => i = j
    /\ \A i \in 1 .. Len(visited) : \E j \in 1 .. Len(WindowCells) : visited[i] = WindowCells[j]
    /\ main.pc = "returned" =>
           /\ Submitted = WindowCells
           /\ Len(visited) = Len(WindowCells)
    /\ (~args.use_threads \/ args.max_workers = 1) => IsPrefix(visited, WindowCells)

\* a threaded scrape of two years has returned
C4_Witness ==
    /\ main.pc = "returned" /\ args.use_threads
    /\ args.start_year < args.end_year
    /\ Len(visited) = 2 * NumMonths

\* C5 as stated: at most one fetch is in progress, and a cell's fetch is over
\* before the next cell's fetch begins.
C5_OneFetchAtATime ==
    /\ Cardinality(Running) <= 1
    /\ \A t \in 2 .. Len(tasks) : tasks[t].pc # "queued" => tasks[t - 1].pc = "done"

\* C5 amended: at most max_workers fetches are in progress with the thread
\* pool; with DummyExecutor at most one, each over before the next begins.
C5_AtMostMaxWorkers ==
    /\ Cardinality(Running) <= IF args.use_threads THEN args.max_workers ELSE 1
    /\ ~args.use_threads =>
           \A t \in 2 .. Len(tasks) : tasks[t - 1].pc = "done"

\* two fetches are in progress at once
C5_Witness == args.use_threads /\ Cardinality(Running) = 2

\* C6: no two workers are at the assignment to self.daily_data at once.
C6_SerializedWrites ==
    Cardinality({t \in 1 .. Len(tasks) : tasks[t].pc = "write"}) <= 1

\* the assignment self.daily_data[...] = {...} of call t is executed
Writes(t) == t <= Len(tasks) /\ tasks[t].pc = "write" /\ tasks'[t].pc = "row"

\* C8 as stated: the k-th recorded row of a cell is stored under year-month-k.
C8_SequentialDays ==
    [][\A t \in 1 .. Len(tasks) :
         Writes(t) =>
           daily_data' = (DateStr(tasks[t].year, tasks[t].month, tasks[t].k)
                            :> RowValues(tasks[t].cur, tasks[t].hdr)) @@ daily_data]_vars

\* C8 amended: each recorded row is stored under its own Date/Time field, in
\* the order the rows are received.
C8_KeyedByDateField ==
    [][\A t \in 1 .. Len(tasks) :
         Writes(t) =>
           daily_data' = (tasks[t].cur["Date/Time"]
                            :> RowValues(tasks[t].cur, tasks[t].hdr)) @@ daily_data]_vars

\* the first recorded row of a month was dated day 2, and stored under day 2
C8_Witness ==
    \E t \in 1 .. Len(tasks) :
        /\ tasks[t].pc = "row" /\ tasks[t].k = 1
        /\ DOMAIN daily_data = {DateStr(tasks[t].year, tasks[t].month, 2)}

\* C9: every good row of a month's response is recorded once the fetch of the
\* month is over, whatever other rows the response holds.
C9_RowGranular ==
    \A t \in 1 .. Len(tasks) :
        tasks[t].pc = "done" => tasks[t].valid \subseteq DOMAIN daily_data

\* C10: a recorded 0 comes from a cell of the source that reads as zero.
C10_NoZeroForAbsent ==
    [][\A t \in 1 .. Len(tasks) :
         Writes(t) =>
           \A col \in TempCols :
               daily_data'[tasks[t].cur["Date/Time"]][col] = 0
                   => /\ col \in tasks[t].hdr
                      /\ ParseFloat(tasks[t].cur[col]) = [ok |-> TRUE, val |-> 0]]_vars

\* the fetch of call t ends without a row: the request raised or answered a
\* status other than 200, or the response held no row
FailsAt(t) ==
    /\ t <= Len(tasks) /\ tasks'[t].pc = "done"
    /\ \/ tasks[t].pc = "csv"
       \/ tasks[t].pc = "row" /\ tasks[t].read = 0

\* C11: a fetch that fails or yields no row leaves daily_data as it was, so
\* it adds no entry for its cell and changes no entry of another cell; the
\* calls after it are still made, and when scrape_all returns every cell of
\* the window has been fetched.
C11_FailureIsCellLocal ==
    /\ [][\A t \in 1 .. Len(tasks) :
            FailsAt(t) => /\ daily_data' = daily_data
                          /\ main' = main
                          /\ \A u \in 1 .. Len(tasks) : u # t => tasks'[u] = tasks[u]]_vars
    /\ [](\A t \in 1 .. Len(tasks) :
            (tasks[t].pc = "done" /\ tasks[t].valid = {})
                => DOMAIN daily_data \cap CellDates(tasks[t].year, tasks[t].month) = {})
    /\ [](main.pc = "returned" =>
            /\ Len(visited) = Len(WindowCells)
            /\ \A i \in 1 .. Len(WindowCells) :
                   \E j \in 1 .. Len(visited) : visited[j] = WindowCells[i])

\* scrape_all has returned; the first cell's fetch failed, a later cell's
\* fetch recorded its row
C11_Witness ==
    /\ main.pc = "returned" /\ Len(tasks) >= 2
    /\ tasks[1].valid = {}
    /\ DOMAIN daily_data \cap CellDates(tasks[2].year, tasks[2].month) # {}

\* the dates the calls of fetch_csv_for_month have recorded or are recording
Produced == UNION {tasks[t].valid : t \in 1 .. Len(tasks)}

\* C12: scrape_all returns in a step that finds every cell of the window
\* submitted and every call over; once it has returned no call is queued or
\* running, and daily_data holds every date a call has recorded.
C12_ReturnAfterAll ==
    /\ [][(main.pc # "returned" /\ main'.pc = "returned")
            => /\ Submitted = WindowCells
               /\ AllDone
               /\ daily_data' = daily_data]_vars
    /\ [](main.pc = "returned" =>
            /\ Running = {}
            /\ \A t \in 1 .. Len(tasks) : tasks[t].pc = "done"
            /\ DOMAIN daily_data = Produced)

\* a scrape of two years by two workers has returned with a row of every cell
C12_Witness ==
    /\ main.pc = "returned" /\ args.use_threads /\ args.max_workers = 2
    /\ Len(tasks) = 2 * NumMonths
    /\ \A t \in 1 .. Len(tasks) : tasks[t].valid # {}
    /\ Cardinality(DOMAIN daily_data) = 2 * NumMonths

\* the rows of a page: the texts collected between a row's tags, one row per
\* row-closing tag that follows at least one text
RECURSIVE RawRows(_, _, _)
RawRows(tokens, cells, rows) ==
    IF tokens = <<>> THEN rows
    ELSE LET token == Head(tokens)
         IN  CASE token.kind = "data" ->
                    RawRows(Tail(tokens), Append(cells, token.text), rows)
               [] token.kind = "endtag" /\ token.text = "tr" ->
                    RawRows(Tail(tokens), <<>>,
                            IF cells = <<>> THEN rows ELSE Append(rows, cells))
               [] OTHER -> RawRows(Tail(tokens), cells, rows)

\* the texts that read as a temperature
IsNumber(text) == text \in {"10.0", "2.0", "6.0"}

\* the rows of a page that hold a day's three temperatures
DailyRows(doc) ==
    LET rows == RawRows(doc, <<>>, <<>>)
    IN  {i \in 1 .. Len(rows) : \A j \in 1 .. Len(rows[i]) : IsNumber(rows[i][j])}

\* C17: the HTML attempt yields one daily record for every completed row of
\* the page's table whose cells are numbers (for the rows ("10.0", "2.0",
\* "6.0") and ("abc", "-", "-"): one record, of the first row) and none for
\* any other row or for a row-closing tag without cells.
C17_TableExtraction ==
    \A t \in 1 .. Len(tasks) :
        tasks[t].html.fed =>
            Cardinality(DOMAIN tasks[t].html.data) = Cardinality(DailyRows(tasks[t].html.doc))

\* the call submitted last among those that recorded the date
LastWriter(date) ==
    CHOOSE t \in 1 .. Len(tasks) :
        /\ date \in tasks[t].valid
        /\ \A u \in 1 .. Len(tasks) : date \in tasks[u].valid => u <= t

\* what scrape_all(use_threads=False) returns for the responses the calls
\* received: for each date the values of the call submitted last
SequentialResult ==
    [date \in Produced |->
        LET t == LastWriter(date)
            row == CHOOSE r \in Rows("yearly", tasks[t].year, tasks[t].month, Cols) : TRUE
        IN  RowValues(row, Cols)]

\* C18: whatever the interleaving of the workers, the mapping scrape_all
\* returns is the one the unthreaded scrape returns for the same responses,
\* also when two cells hold a row for the same date.
C18_ThreadsAgree ==
    main.pc = "returned" => daily_data = SequentialResult

\* the unthreaded scrape alone
C18_UnthreadedReference ==
    (main.pc = "returned" /\ ~args.use_threads) => daily_data = SequentialResult

====
